---- MODULE Spec2Model ----
(***************************************************************************)
(* Pair-trading backtest of src/app.py (backtesting_page).                 *)
(*                                                                         *)
(* The backtest joins two closing-price series, computes the rolling       *)
(* z-score of their ratio, walks the dates once while keeping a position   *)
(* state machine and a trade ledger, and then derives the daily and        *)
(* cumulative PnL columns and the table of completed trades.               *)
(*                                                                         *)
(* Floating point values are modelled as cells: a number, NaN (pandas'     *)
(* missing value) or None (Python's).  Numbers are integers: the claims    *)
(* are about comparisons, differences and products, which integers keep.   *)
(*                                                                         *)
(* Spec is one run of the backtest, SpecRerun two runs in a row on the     *)
(* same inputs, and SpecDB the IndexedDB scripts of the download page      *)
(* (src/app.py) and of the reader app (src/indexeddb_reader.py).           *)
(***************************************************************************)
EXTENDS Integers, Sequences, FiniteSets, TLC

\* ------------------------------------------------------------------ bounds
\* Longest joined price table (rows of `pairs`).
MaxLen == 8
\* Largest lookback the model tries; the smallest is the widget's minimum.
MaxLookback == 6

\* ------------------------------------------------- program constants
\* st.number_input("Lookback Period (days)", min_value=5, ...)
MinLookback == 5
\* trades_df['PnL %'] = trades_df['PnL'] * 10
PnLScale == 10
\* sharpe_ratio = mean / std * np.sqrt(252)
TradingDays == 252

\* ------------------------------------------------------------------ cells
None == [k |-> "none", v |-> 0]
NaN == [k |-> "nan", v |-> 0]
Num(x) == [k |-> "num", v |-> x]
IsNum(c) == c.k = "num"
\* pandas isna(): None, NaN and NaT are all missing
IsNa(c) == c.k # "num"

\* float comparisons: any comparison with NaN is False
Gt(c, x) == IsNum(c) /\ c.v > x
Lt(c, x) == IsNum(c) /\ c.v < x
Ge(c, x) == IsNum(c) /\ c.v >= x
Le(c, x) == IsNum(c) /\ c.v <= x
\* float arithmetic: NaN propagates
Sub(a, b) == IF IsNum(a) /\ IsNum(b) THEN Num(a.v - b.v) ELSE NaN
\* integer times float
Scale(p, c) == IF IsNum(c) THEN Num(p * c.v) ELSE NaN

\* ------------------------------------------------------------------ inputs
\* Trading days: the k-th weekday (k = 0 is a Monday) as a calendar day.
BusinessDay(k) == (k \div 5) * 7 + (k % 5)
\* Weekday of the first joined row (a Thursday: the rows span weekends).
WeekStarts == {3}
\* The DatetimeIndex of `pairs`: n consecutive trading days.
DateIndex(s, n) == [j \in 1..n |-> BusinessDay(s + j - 1)]

\* z-scores on either side of every threshold below, and NaN
ZValues == {Num(x) : x \in {-2, -1, 0, 1, 2}} \cup {NaN}
\* Rolling z-score over `lb` observations: the first lb-1 rows have no full
\* window (NaN); later rows are a number, or NaN when the window's standard
\* deviation is 0 (0/0).
ZScoreColumns(n, lb) ==
    {zs \in [1..n -> ZValues] : \A j \in 1..n : j < lb => zs[j] = NaN}

\* st.number_input without min_value: any sign can be entered.
\* <<entry_threshold, exit_threshold>>
Thresholds == {<<1, 1>>, <<1, 0>>, <<-1, 1>>}
Lookbacks == MinLookback..MaxLookback

VARIABLES
    pc,               \* "start", "loop", "done", "error", "reported", "no_trades"
    index,            \* pairs.index: the dates
    ZScore,           \* pairs['Z-Score']
    lookback, entry_threshold, exit_threshold,
    Position,         \* pairs['Position']
    Trade,            \* pairs['Trade']
    current_position, entry_z, entry_date,
    trade_history,
    i,                \* rows of the loop already processed
    DailyPnL,         \* pairs['Daily PnL']
    CumulativePnL,    \* pairs['Cumulative PnL']
    trades_df,
    message,          \* what the page shows: st.error / st.warning / the table
    metrics,          \* the performance metrics and their displayed values
    run,              \* 1 on the first click of "Run Backtest", 2 on the second
    first,            \* what the first run left on the page
    idb,              \* the browser's IndexedDB database "StockDatabase"
    writer,           \* the script injected by the download page
    reader            \* the script injected by the reader app

vars == <<pc, index, ZScore, lookback, entry_threshold, exit_threshold,
          Position, Trade, current_position, entry_z, entry_date,
          trade_history, i, DailyPnL, CumulativePnL, trades_df,
          message, metrics, run, first, idb, writer, reader>>

inputs == <<index, ZScore, lookback, entry_threshold, exit_threshold>>
browser == <<idb, writer, reader>>
backtest == <<pc, index, ZScore, lookback, entry_threshold, exit_threshold,
              Position, Trade, current_position, entry_z, entry_date,
              trade_history, i, DailyPnL, CumulativePnL, trades_df,
              message, metrics, run, first>>

\* ------------------------------------------------------------ the loop body
\* if z_score > entry_threshold
EntryShort(z, thr) == Gt(z, thr)
\* elif z_score < -entry_threshold
EntryLong(z, thr) == Lt(z, 0 - thr)

\* variant: the exit comparisons made strict
ExitCondition_Strict(pos, z, thr) ==
    \/ pos = 1 /\ Gt(z, 0 - thr)
    \/ pos = -1 /\ Lt(z, thr)

\* variant: the exit tests written as negations, `not z_score < -exit_threshold`
ExitCondition_NotLess(pos, z, thr) ==
    \/ pos = 1 /\ ~Lt(z, 0 - thr)
    \/ pos = -1 /\ ~Gt(z, thr)

\* variant: the two exit tests attached to the wrong positions
ExitCondition_Swapped(pos, z, thr) ==
    \/ pos = 1 /\ Le(z, thr)
    \/ pos = -1 /\ Ge(z, 0 - thr)

\* (current_position == 1 and z_score >= -exit_threshold) or
\* (current_position == -1 and z_score <= exit_threshold)
ExitCondition(pos, z, thr) ==
    \/ pos = 1 /\ Ge(z, 0 - thr)
    \/ pos = -1 /\ Le(z, thr)

\* variant: the difference taken the other way round
ExitPnL_Flipped(ez, z, pos) == Scale(pos, Sub(z, ez))

\* exit_pnl = (entry_z - z_score) * current_position
ExitPnL(ez, z, pos) == Scale(pos, Sub(ez, z))

\* holding_days = (date - entry_date).days
HoldingDays(date, ed) == Sub(date, ed)

TypeName(pos) == IF pos = 1 THEN "Long Ratio" ELSE "Short Ratio"

\* the dict appended to trade_history on entry
NewTrade(date, pos, z) ==
    [Entry_Date |-> date, Type |-> TypeName(pos), Entry_Z |-> z,
     Exit_Date |-> None, Exit_Z |-> None, Holding_Period |-> None,
     PnL |-> None]

\* index of the last trade whose Exit Date is None, 0 when there is none
LastOpen(hist) ==
    LET open == {k \in 1..Len(hist) : hist[k].Exit_Date = None}
    IN IF open = {} THEN 0 ELSE CHOOSE k \in open : \A m \in open : m <= k

\* variant: the backward search never matches an open trade
CloseTrade_Unmatched(hist, date, z, hold, pnl) == hist

\* for trade in reversed(trade_history): if trade['Exit Date'] is None: ...; break
CloseTrade(hist, date, z, hold, pnl) ==
    LET k == LastOpen(hist)
    IN IF k = 0 THEN hist
       ELSE [hist EXCEPT ![k] = [@ EXCEPT !.Exit_Date = date, !.Exit_Z = z,
                                          !.Holding_Period = hold,
                                          !.PnL = pnl]]

\* ------------------------------------------------------- after the loop
\* variant: diff() without the shift, row t holds z[t] - z[t-1], the first NaN
DiffShift_NoShift(zs) ==
    [t \in 1..Len(zs) |-> IF t > 1 THEN Sub(zs[t], zs[t - 1]) ELSE NaN]

\* pairs['Z-Score'].diff().shift(-1): row t holds z[t+1] - z[t], the last NaN
DiffShift(zs) ==
    [t \in 1..Len(zs) |-> IF t < Len(zs) THEN Sub(zs[t + 1], zs[t]) ELSE NaN]

\* pairs['Position'] * pairs['Z-Score'].diff().shift(-1)
DailyPnLColumn(pos, zs) ==
    [t \in 1..Len(zs) |-> Scale(pos[t], DiffShift(zs)[t])]

\* sum of the non-missing cells of col[1..t]
RECURSIVE SumDefined(_, _)
SumDefined(col, t) ==
    IF t = 0 THEN 0
    ELSE SumDefined(col, t - 1) + (IF IsNum(col[t]) THEN col[t].v ELSE 0)

\* Series.cumsum(): missing cells are skipped and stay missing
CumSum(col) ==
    [t \in 1..Len(col) |-> IF IsNum(col[t]) THEN Num(SumDefined(col, t)) ELSE NaN]

\* Series.fillna(0)
FillNa(col) == [t \in 1..Len(col) |-> IF IsNa(col[t]) THEN Num(0) ELSE col[t]]

\* pairs['Daily PnL'].cumsum().fillna(0)
CumulativePnLColumn(daily) == FillNa(CumSum(daily))

\* a row with a missing value in any column
HasNa(tr) ==
    \/ IsNa(tr.Entry_Date) \/ IsNa(tr.Entry_Z) \/ IsNa(tr.Exit_Date)
    \/ IsNa(tr.Exit_Z) \/ IsNa(tr.Holding_Period) \/ IsNa(tr.PnL)

\* variant: dropna() left out
DropNa_Keep(hist) == hist

\* DataFrame.dropna(): the rows without a missing value, in order
RECURSIVE DropNa(_)
DropNa(hist) ==
    IF hist = <<>> THEN <<>>
    ELSE IF HasNa(Head(hist)) THEN DropNa(Tail(hist))
    ELSE <<Head(hist)>> \o DropNa(Tail(hist))

\* trades_df['PnL %'] = PnL * 10; Holding Period = (Exit Date - Entry Date).days
ProcessTrades(hist) ==
    LET kept == DropNa(hist)
    IN [k \in 1..Len(kept) |->
          [Entry_Date |-> kept[k].Entry_Date, Type |-> kept[k].Type,
           Entry_Z |-> kept[k].Entry_Z, Exit_Date |-> kept[k].Exit_Date,
           Exit_Z |-> kept[k].Exit_Z,
           Holding_Period |-> Sub(kept[k].Exit_Date, kept[k].Entry_Date),
           PnL |-> kept[k].PnL,
           PnL_pct |-> Scale(PnLScale, kept[k].PnL)]]

\* ----------------------------------------------------------- IndexedDB
\* indexedDB.open("StockDatabase", 3) in the download page
WriterVersion == 3
\* indexedDB.open("StockDatabase", 2) in the reader app
ReaderVersion == 2
\* rows downloaded per symbol, clicks of "Download All Symbols" and of
\* "Retrieve Data"
MaxRows == 2
MaxDownloads == 2
MaxClicks == 2

\* symbols.csv
Symbols == {"AAPL", "MSFT"}

\* a browser profile that has never opened the database
NoDatabase == [version |-> 0, stores |-> {}, records |-> <<>>, next_id |-> 1]
WriterIdle == [pc |-> "idle", results |-> <<>>, index |-> 1, phase |-> "clear",
               runs |-> 0]
ReaderIdle == [clicks |-> 0, symbol |-> "", outcome |-> "none", out |-> <<>>]

\* one entry of `results`: a failed download, or `rows` records
\* {Date, Symbol, ...} of the symbol
DownloadResults(sym) ==
    {[symbol |-> sym, status |-> "failed", data |-> <<>>]}
    \cup {[symbol |-> sym, status |-> "success",
           data |-> [d \in 1..rows |-> [Date |-> d, Symbol |-> sym]]]
          : rows \in 1..MaxRows}
\* `results`: one entry per symbol of symbols.csv, in this model for one
\* symbol or for two different ones
ResultLists ==
    {<<r>> : r \in UNION {DownloadResults(sym) : sym \in Symbols}}
    \cup {<<r1, r2>> : r1 \in DownloadResults("AAPL"),
                       r2 \in DownloadResults("MSFT")}
    \cup {<<r2, r1>> : r1 \in DownloadResults("AAPL"),
                       r2 \in DownloadResults("MSFT")}

\* the records of the "symbol" index with key sym, in primary-key order
RecordsOf(db, sym) == SelectSeq(db.records, LAMBDA rec : rec.symbol = sym)

\* records {symbol, date, data} with auto-incremented ids for the items
NewRecords(sym, data, id) ==
    [k \in 1..Len(data) |->
        [id |-> id + k - 1, symbol |-> sym, date |-> data[k].Date,
         data |-> data[k]]]

\* indexedDB.open(name, version): a database with a greater version
\* cannot be opened (VersionError); a smaller one is upgraded
OpenFails(db, version) == db.version > version
Upgraded(db, version) == db.version < version

\* ------------------------------------------------------------- metrics
NoMessage == [kind |-> "none", text |-> ""]
NoMetrics == [shown |-> FALSE]
\* a displayed string, and a quotient of two integers
Text(str) == [k |-> "text", s |-> str]
Ratio(a, b) == [k |-> "ratio", num |-> a, den |-> b]
Sgn(x) == IF x > 0 THEN 1 ELSE IF x < 0 THEN -1 ELSE 0

\* trades_df['PnL %'].sum(), and the sum of its squares
RECURSIVE SumPct(_)
SumPct(df) == IF df = <<>> THEN 0 ELSE Head(df).PnL_pct.v + SumPct(Tail(df))
RECURSIVE SumSqPct(_)
SumSqPct(df) ==
    IF df = <<>> THEN 0
    ELSE Head(df).PnL_pct.v * Head(df).PnL_pct.v + SumSqPct(Tail(df))
RECURSIVE SumHolding(_)
SumHolding(df) ==
    IF df = <<>> THEN 0 ELSE Head(df).Holding_Period.v + SumHolding(Tail(df))

\* trades_df[trades_df['Type'] == type]
OfType(df, type) == SelectSeq(df, LAMBDA tr : tr.Type = type)
\* len(df[df['PnL %'] > 0])
Wins(df) == Cardinality({k \in 1..Len(df) : df[k].PnL_pct.v > 0})

\* mean / std * sqrt(252) with the sample standard deviation.  One trade has
\* no sample deviation (NaN); equal PnLs have deviation 0, and the float
\* division gives inf, -inf or (0/0) NaN.  Otherwise the value is kept as
\* its sign and its square, 252 * S^2 * (n-1) / (n * (n*Q - S^2)).
SharpeRatio(df) ==
    LET n == Len(df)
        S == SumPct(df)
        Q == SumSqPct(df)
        dev == n * Q - S * S
    IN IF n < 2 THEN NaN
       ELSE IF dev = 0
            THEN IF S = 0 THEN NaN ELSE [k |-> "inf", v |-> Sgn(S)]
       ELSE [k |-> "sharpe", sign |-> Sgn(S),
             sq |-> Ratio(TradingDays * S * S * (n - 1), n * dev)]

\* f"{sharpe_ratio:.2f}"
FormatFloat(c) ==
    IF c.k = "nan" THEN Text("nan")
    ELSE IF c.k = "inf" THEN Text(IF c.v > 0 THEN "inf" ELSE "-inf")
    ELSE c

\* win rate of one type: len(wins) / len(trades) if len(trades) > 0 else 0
TypeWinRate(df) == IF Len(df) > 0 THEN Ratio(Wins(df), Len(df)) ELSE Ratio(0, 1)
\* f"{rate*100:.1f}%" if len(trades) > 0 else "N/A"
FormatTypeWinRate(df) == IF Len(df) > 0 THEN TypeWinRate(df) ELSE Text("N/A")

\* the metrics of a non-empty trades_df and the rows of the metrics table
Metrics(df) ==
    [shown |-> TRUE,
     total_pnl |-> SumPct(df),
     num_trades |-> Len(df),
     win_rate |-> Ratio(Wins(df), Len(df)),
     sharpe_ratio |-> SharpeRatio(df),
     long_win_rate |-> TypeWinRate(OfType(df, "Long Ratio")),
     short_win_rate |-> TypeWinRate(OfType(df, "Short Ratio")),
     avg_holding |-> Ratio(SumHolding(df), Len(df)),
     table |-> [Total_PnL |-> Num(SumPct(df)),
                Number_of_Trades |-> Num(Len(df)),
                Win_Rate |-> Ratio(Wins(df), Len(df)),
                Sharpe_Ratio |-> FormatFloat(SharpeRatio(df)),
                Long_Ratio_Win_Rate |->
                    FormatTypeWinRate(OfType(df, "Long Ratio")),
                Short_Ratio_Win_Rate |->
                    FormatTypeWinRate(OfType(df, "Short Ratio")),
                Average_Holding_Period |-> Ratio(SumHolding(df), Len(df))]]

\* what a run leaves behind: the per-date series, the ledger, the metrics
NoResult == [pc |-> "none"]
Result ==
    [pc |-> pc, message |-> message, metrics |-> metrics,
     Position |-> Position, Trade |-> Trade, DailyPnL |-> DailyPnL,
     CumulativePnL |-> CumulativePnL, trade_history |-> trade_history,
     trades_df |-> trades_df]
Terminal == pc \in {"error", "reported", "no_trades"}

\* ---------------------------------------------------------------- actions
\* the page before the first click, with a joined table of at most maxn rows
InitWith(maxn) ==
    /\ pc = "start"
    /\ lookback \in Lookbacks
    /\ \E th \in Thresholds :
          /\ entry_threshold = th[1]
          /\ exit_threshold = th[2]
    /\ \E n \in 0..maxn, s \in WeekStarts :
          /\ index = DateIndex(s, n)
          /\ ZScore \in ZScoreColumns(n, lookback)
    /\ Position = <<>>
    /\ Trade = <<>>
    /\ current_position = 0
    /\ entry_z = None
    /\ entry_date = None
    /\ trade_history = <<>>
    /\ i = 0
    /\ DailyPnL = <<>>
    /\ CumulativePnL = <<>>
    /\ trades_df = <<>>
    /\ message = NoMessage
    /\ metrics = NoMetrics
    /\ run = 1
    /\ first = NoResult
    /\ idb = NoDatabase
    /\ writer = WriterIdle
    /\ reader = ReaderIdle

Init == InitWith(MaxLen)

\* "Run Backtest" with no overlapping rows: st.error(...); return
NoData ==
    /\ pc = "start"
    /\ Len(index) = 0
    /\ pc' = "error"
    /\ message' = [kind |-> "error", text |-> "No overlapping data found"]
    /\ UNCHANGED <<inputs, run, first, browser, Position, Trade, current_position, entry_z,
                   entry_date, trade_history, i, DailyPnL, CumulativePnL,
                   trades_df, metrics>>

\* variant: trade_history lives on between runs (kept in session state)
StartBacktest_KeepHistory ==
    /\ pc = "start"
    /\ Len(index) > 0
    /\ Position' = [j \in 1..Len(index) |-> 0]
    /\ Trade' = [j \in 1..Len(index) |-> "None"]
    /\ current_position' = 0
    /\ entry_z' = None
    /\ entry_date' = None
    /\ trade_history' = trade_history
    /\ i' = 0
    /\ pc' = "loop"
    /\ UNCHANGED <<inputs, run, first, browser, DailyPnL, CumulativePnL, trades_df, message,
                   metrics>>

\* "Run Backtest" with data: the columns and the loop state are set up
StartBacktest ==
    /\ pc = "start"
    /\ Len(index) > 0
    /\ Position' = [j \in 1..Len(index) |-> 0]
    /\ Trade' = [j \in 1..Len(index) |-> "None"]
    /\ current_position' = 0
    /\ entry_z' = None
    /\ entry_date' = None
    /\ trade_history' = <<>>
    /\ i' = 0
    /\ pc' = "loop"
    /\ UNCHANGED <<inputs, run, first, browser, DailyPnL, CumulativePnL, trades_df, message,
                   metrics>>

\* variant: the new trade is put at the front of trade_history
Enter_Prepend(row, date, z, pos) ==
    /\ Position' = [Position EXCEPT ![row] = pos]
    /\ current_position' = pos
    /\ entry_z' = z
    /\ entry_date' = date
    /\ Trade' = [Trade EXCEPT ![row] = TypeName(pos)]
    /\ trade_history' = <<NewTrade(date, pos, z)>> \o trade_history

\* the entry branch for position pos in {1, -1}
Enter(row, date, z, pos) ==
    /\ Position' = [Position EXCEPT ![row] = pos]
    /\ current_position' = pos
    /\ entry_z' = z
    /\ entry_date' = date
    /\ Trade' = [Trade EXCEPT ![row] = TypeName(pos)]
    /\ trade_history' = Append(trade_history, NewTrade(date, pos, z))

\* variant: the exit test is a second `if`, not the `else` of the entry test,
\* so that a position opened on a date can be closed on the same date
LoopStep_SameDay ==
    /\ pc = "loop"
    /\ i < Len(index)
    /\ LET row == i + 1
           date == Num(index[row])
           z_score == ZScore[row]
           enter == IF current_position # 0 THEN 0
                    ELSE IF EntryShort(z_score, entry_threshold) THEN -1
                    ELSE IF EntryLong(z_score, entry_threshold) THEN 1
                    ELSE 0
           pos1 == IF enter # 0 THEN enter ELSE current_position
           ez1 == IF enter # 0 THEN z_score ELSE entry_z
           ed1 == IF enter # 0 THEN date ELSE entry_date
           hist1 == IF enter # 0
                    THEN Append(trade_history, NewTrade(date, enter, z_score))
                    ELSE trade_history
           exit == pos1 # 0 /\ ExitCondition(pos1, z_score, exit_threshold)
       IN /\ Position' = [Position EXCEPT ![row] = pos1]
          /\ Trade' = [Trade EXCEPT ![row] =
                          IF exit THEN "Exit"
                          ELSE IF enter # 0 THEN TypeName(enter) ELSE @]
          /\ trade_history' =
                IF exit
                THEN CloseTrade(hist1, date, z_score, HoldingDays(date, ed1),
                                ExitPnL(ez1, z_score, pos1))
                ELSE hist1
          /\ current_position' = IF exit THEN 0 ELSE pos1
          /\ entry_z' = IF exit THEN None ELSE ez1
          /\ entry_date' = IF exit THEN None ELSE ed1
    /\ i' = i + 1
    /\ UNCHANGED <<pc, inputs, run, first, browser, DailyPnL, CumulativePnL, trades_df, message,
                   metrics>>

\* one iteration of `for i in range(len(pairs))`
LoopStep ==
    /\ pc = "loop"
    /\ i < Len(index)
    /\ LET row == i + 1
           date == Num(index[row])
           z_score == ZScore[row]
       IN IF current_position = 0
          THEN IF EntryShort(z_score, entry_threshold)
               THEN Enter(row, date, z_score, -1)
               ELSE IF EntryLong(z_score, entry_threshold)
               THEN Enter(row, date, z_score, 1)
               ELSE UNCHANGED <<Position, current_position, entry_z,
                                entry_date, Trade, trade_history>>
          ELSE IF ExitCondition(current_position, z_score, exit_threshold)
               THEN /\ Position' = [Position EXCEPT ![row] = current_position]
                    /\ trade_history' =
                          CloseTrade(trade_history, date, z_score,
                                     HoldingDays(date, entry_date),
                                     ExitPnL(entry_z, z_score, current_position))
                    /\ current_position' = 0
                    /\ entry_z' = None
                    /\ entry_date' = None
                    /\ Trade' = [Trade EXCEPT ![row] = "Exit"]
               ELSE /\ Position' = [Position EXCEPT ![row] = current_position]
                    /\ UNCHANGED <<current_position, entry_z, entry_date,
                                   Trade, trade_history>>
    /\ i' = i + 1
    /\ UNCHANGED <<pc, inputs, run, first, browser, DailyPnL, CumulativePnL, trades_df, message,
                   metrics>>

\* after the loop: the PnL columns and the table of completed trades
Finish ==
    /\ pc = "loop"
    /\ i = Len(index)
    /\ DailyPnL' = DailyPnLColumn(Position, ZScore)
    /\ CumulativePnL' = CumulativePnLColumn(DailyPnLColumn(Position, ZScore))
    /\ trades_df' = ProcessTrades(trade_history)
    /\ pc' = "done"
    /\ UNCHANGED <<inputs, run, first, browser, Position, Trade, current_position, entry_z,
                   entry_date, trade_history, i, message, metrics>>

\* yf.download raised: st.error(f"Error downloading data: ..."); return
DownloadError ==
    /\ pc = "start"
    /\ pc' = "error"
    /\ message' = [kind |-> "error", text |-> "Error downloading data"]
    /\ UNCHANGED <<inputs, run, first, browser, Position, Trade, current_position, entry_z,
                   entry_date, trade_history, i, DailyPnL, CumulativePnL,
                   trades_df, metrics>>

\* `if not trades_df.empty:` the trade table and the performance metrics
ReportMetrics ==
    /\ pc = "done"
    /\ Len(trades_df) > 0
    /\ metrics' = Metrics(trades_df)
    /\ message' = [kind |-> "table", text |-> "Performance Metrics"]
    /\ pc' = "reported"
    /\ UNCHANGED <<inputs, run, first, browser, Position, Trade, current_position, entry_z,
                   entry_date, trade_history, i, DailyPnL, CumulativePnL,
                   trades_df>>

\* variant: the empty ledger is reported with st.error
ReportNoTrades_AsError ==
    /\ pc = "done"
    /\ Len(trades_df) = 0
    /\ message' = [kind |-> "error", text |-> "No trades were executed"]
    /\ pc' = "error"
    /\ UNCHANGED <<inputs, run, first, browser, Position, Trade, current_position, entry_z,
                   entry_date, trade_history, i, DailyPnL, CumulativePnL,
                   trades_df, metrics>>

\* `else:` st.warning("No trades were executed with the current parameters")
ReportNoTrades ==
    /\ pc = "done"
    /\ Len(trades_df) = 0
    /\ message' = [kind |-> "warning", text |-> "No trades were executed"]
    /\ pc' = "no_trades"
    /\ UNCHANGED <<inputs, run, first, browser, Position, Trade, current_position, entry_z,
                   entry_date, trade_history, i, DailyPnL, CumulativePnL,
                   trades_df, metrics>>

\* "Run Backtest" clicked again with the same widgets and the same prices:
\* the script runs again from the top and the page is drawn afresh.  Values
\* of the earlier run are left where they were, to be overwritten.
Rerun ==
    /\ Terminal
    /\ run = 1
    /\ run' = 2
    /\ first' = Result
    /\ pc' = "start"
    /\ message' = NoMessage
    /\ metrics' = NoMetrics
    /\ UNCHANGED <<inputs, browser, Position, Trade, current_position,
                   entry_z, entry_date, trade_history, i, DailyPnL,
                   CumulativePnL, trades_df>>

Next ==
    \/ NoData \/ DownloadError \/ StartBacktest \/ LoopStep \/ Finish
    \/ ReportMetrics \/ ReportNoTrades

Spec == Init /\ [][Next]_vars

\* ------------------------------------------- the IndexedDB scripts
\* "Download All Symbols": the injected script opens the database with
\* version 3, creates the store on upgrade and starts processNext(0)
DownloadAll ==
    /\ writer.pc \in {"idle", "done"}
    /\ writer.runs < MaxDownloads
    /\ \E results \in ResultLists :
          IF OpenFails(idb, WriterVersion)
          THEN /\ writer' = [writer EXCEPT !.pc = "failed",
                                           !.runs = @ + 1]
               /\ UNCHANGED idb
          ELSE /\ idb' = [idb EXCEPT
                            !.version = WriterVersion,
                            !.stores = IF Upgraded(idb, WriterVersion)
                                       THEN @ \cup {"stockData"} ELSE @]
               /\ writer' = [pc |-> "processing", results |-> results,
                             index |-> 1, phase |-> "clear",
                             runs |-> writer.runs + 1]
    /\ UNCHANGED <<backtest, reader>>

\* processNext(index) past the end: alert(...)
WriterFinish ==
    /\ writer.pc = "processing"
    /\ writer.index > Len(writer.results)
    /\ writer' = [writer EXCEPT !.pc = "done"]
    /\ UNCHANGED <<backtest, idb, reader>>

\* processNext(index) on a failed download: skipped
WriterSkip ==
    /\ writer.pc = "processing"
    /\ writer.index <= Len(writer.results)
    /\ writer.results[writer.index].status # "success"
    /\ writer' = [writer EXCEPT !.index = @ + 1]
    /\ UNCHANGED <<backtest, idb, reader>>

\* processNext(index): the records of the symbol are deleted
WriterClear ==
    /\ writer.pc = "processing"
    /\ writer.index <= Len(writer.results)
    /\ writer.results[writer.index].status = "success"
    /\ writer.phase = "clear"
    /\ idb' = [idb EXCEPT !.records =
                  SelectSeq(@, LAMBDA rec :
                     rec.symbol # writer.results[writer.index].symbol)]
    /\ writer' = [writer EXCEPT !.phase = "add"]
    /\ UNCHANGED <<backtest, reader>>

\* addNewData(result, index): one record per downloaded row
WriterAdd ==
    /\ writer.pc = "processing"
    /\ writer.index <= Len(writer.results)
    /\ writer.phase = "add"
    /\ LET result == writer.results[writer.index]
       IN idb' = [idb EXCEPT
                    !.records = @ \o NewRecords(result.symbol, result.data,
                                                idb.next_id),
                    !.next_id = @ + Len(result.data)]
    /\ writer' = [writer EXCEPT !.phase = "clear", !.index = @ + 1]
    /\ UNCHANGED <<backtest, reader>>

\* "Retrieve Data": readFromIndexedDB() opens the database with version 2
\* and reads the records of the symbol through the "symbol" index
ReaderRetrieve ==
    /\ reader.clicks < MaxClicks
    /\ \E sym \in Symbols :
          IF OpenFails(idb, ReaderVersion)
          THEN /\ reader' = [clicks |-> reader.clicks + 1, symbol |-> sym,
                             outcome |-> "Database error", out |-> <<>>]
               /\ UNCHANGED idb
          ELSE /\ idb' = [idb EXCEPT !.version = ReaderVersion]
               /\ reader' =
                     IF "stockData" \notin idb.stores
                     THEN [clicks |-> reader.clicks + 1, symbol |-> sym,
                           outcome |-> "No stock data store found",
                           out |-> <<>>]
                     ELSE IF Len(RecordsOf(idb, sym)) > 0
                     THEN [clicks |-> reader.clicks + 1, symbol |-> sym,
                           outcome |-> "resolved",
                           out |-> [k \in 1..Len(RecordsOf(idb, sym)) |->
                                       RecordsOf(idb, sym)[k].data]]
                     ELSE [clicks |-> reader.clicks + 1, symbol |-> sym,
                           outcome |-> "No data found for symbol",
                           out |-> <<>>]
    /\ UNCHANGED <<backtest, writer>>

\* the download page and the reader app sharing one browser profile
InitDB ==
    /\ pc = "start"
    /\ lookback = MinLookback
    /\ entry_threshold = 1
    /\ exit_threshold = 1
    /\ index = <<>>
    /\ ZScore = <<>>
    /\ Position = <<>>
    /\ Trade = <<>>
    /\ current_position = 0
    /\ entry_z = None
    /\ entry_date = None
    /\ trade_history = <<>>
    /\ i = 0
    /\ DailyPnL = <<>>
    /\ CumulativePnL = <<>>
    /\ trades_df = <<>>
    /\ message = NoMessage
    /\ metrics = NoMetrics
    /\ run = 1
    /\ first = NoResult
    /\ idb = NoDatabase
    /\ writer = WriterIdle
    /\ reader = ReaderIdle

NextDB ==
    \/ DownloadAll \/ WriterFinish \/ WriterSkip \/ WriterClear
    \/ WriterAdd \/ ReaderRetrieve

SpecDB == InitDB /\ [][NextDB]_vars

\* two runs in a row on the same inputs (tables one row shorter, to keep
\* the two-run state space the size of the one-run one)
InitRerun == InitWith(MaxLen - 1)
NextRerun == Next \/ Rerun
SpecRerun == InitRerun /\ [][NextRerun]_vars

TypeOK ==
    /\ pc \in {"start", "loop", "done", "error", "reported", "no_trades"}
    /\ message.kind \in {"none", "error", "warning", "table"}
    /\ current_position \in {-1, 0, 1}
    /\ i \in 0..Len(index)

\* ------------------------------------------------------------ vocabulary
\* a transition that processes one date
DateStep == pc = "loop" /\ i' = i + 1
\* ... while the position is Flat / non-Flat
FlatStep == DateStep /\ current_position = 0
HeldStep == DateStep /\ current_position # 0
\* every exit field of the trade is null / is filled
ExitNull(tr) ==
    /\ tr.Exit_Date = None /\ tr.Exit_Z = None
    /\ tr.Holding_Period = None /\ tr.PnL = None
ExitFilled(tr) ==
    /\ IsNum(tr.Exit_Date) /\ IsNum(tr.Exit_Z)
    /\ IsNum(tr.Holding_Period) /\ IsNum(tr.PnL)
OpenTrades == {k \in 1..Len(trade_history) : ~ExitFilled(trade_history[k])}
Sign(type) == IF type = "Long Ratio" THEN 1 ELSE -1
\* the row of `pairs` whose date is d (0 when there is none)
RowOf(d) ==
    IF \E r \in 1..Len(index) : index[r] = d
    THEN CHOOSE r \in 1..Len(index) : index[r] = d
    ELSE 0
Started == pc \in {"loop", "done"}

\* thresholds the specification accepts: 0 < exit_threshold <= entry_threshold
ValidThresholds == 0 < exit_threshold /\ exit_threshold <= entry_threshold

\* ---------------------------------------------------------------- C1
\* C1: on a date processed while Flat, the position becomes ShortRatio iff
\* z > entry_threshold, LongRatio iff z < -entry_threshold, and stays Flat
\* otherwise; each entry appends exactly one open Trade carrying that
\* position, z and date.
C1_EntryRule ==
    [][FlatStep =>
        LET z == ZScore[i']
            d == Num(index[i'])
        IN /\ (current_position' = -1) <=> Gt(z, entry_threshold)
           /\ (current_position' = 1) <=> Lt(z, 0 - entry_threshold)
           /\ (current_position' = 0) <=>
                 (~Gt(z, entry_threshold) /\ ~Lt(z, 0 - entry_threshold))
           /\ current_position' # 0 =>
                 /\ entry_z' = z /\ entry_date' = d
                 /\ trade_history' =
                       Append(trade_history,
                              [Entry_Date |-> d,
                               Type |-> IF current_position' = 1
                                        THEN "Long Ratio" ELSE "Short Ratio",
                               Entry_Z |-> z, Exit_Date |-> None,
                               Exit_Z |-> None, Holding_Period |-> None,
                               PnL |-> None])
           /\ current_position' = 0 => trade_history' = trade_history
    ]_vars

\* ---------------------------------------------------------------- C2
\* C2: on a date processed while non-Flat, LongRatio returns to Flat iff
\* z >= -exit_threshold and ShortRatio iff z <= exit_threshold; otherwise
\* position, entry_z, entry_date and the trade list are unchanged.
C2_ExitRule ==
    [][HeldStep =>
        LET z == ZScore[i']
        IN /\ current_position' \in {0, current_position}
           /\ current_position = 1 =>
                 ((current_position' = 0) <=> Ge(z, 0 - exit_threshold))
           /\ current_position = -1 =>
                 ((current_position' = 0) <=> Le(z, exit_threshold))
           /\ current_position' # 0 =>
                 UNCHANGED <<current_position, entry_z, entry_date,
                             trade_history>>
    ]_vars

\* a position was held over one date and closed on a later one
C2_Witness ==
    /\ pc = "loop" /\ i >= 3
    /\ Trade[i] = "Exit"
    /\ Trade[i - 1] = "None" /\ Position[i - 1] # 0

\* ---------------------------------------------------------------- C3
\* C3: closing a position on date d with z-score z completes the single
\* open Trade with exit_date = d, exit_z = z,
\* pnl = (entry_z - z) * position_sign and holding period = d - entry_date
\* in calendar days; no other trade changes; entry_z/entry_date are
\* cleared.  The reported table keeps that calendar-day holding period.
C3_ExitRecord ==
    /\ [][(HeldStep /\ current_position' = 0) =>
            LET z == ZScore[i']
                d == index[i']
            IN /\ Cardinality(OpenTrades) = 1
               /\ \E k \in OpenTrades :
                     /\ trade_history[k].Entry_Z = entry_z
                     /\ trade_history[k].Entry_Date = entry_date
                     /\ Sign(trade_history[k].Type) = current_position
                     /\ trade_history' =
                          [trade_history EXCEPT ![k] =
                             [Entry_Date |-> @.Entry_Date,
                              Type |-> @.Type,
                              Entry_Z |-> @.Entry_Z,
                              Exit_Date |-> Num(d),
                              Exit_Z |-> z,
                              Holding_Period |-> Num(d - @.Entry_Date.v),
                              PnL |-> Num((@.Entry_Z.v - z.v) * Sign(@.Type))]]
               /\ entry_z' = None
               /\ entry_date' = None
         ]_vars
    /\ [](pc = "done" =>
            \A k \in 1..Len(trades_df) :
               trades_df[k].Holding_Period =
                  Num(trades_df[k].Exit_Date.v - trades_df[k].Entry_Date.v))

\* a trade held over a weekend was closed with a non-zero pnl and reported
C3_Witness ==
    /\ pc = "done"
    /\ \E k \in 1..Len(trades_df) :
          /\ trades_df[k].Holding_Period.v >= 3
          /\ trades_df[k].PnL.v # 0

\* ---------------------------------------------------------------- C4
\* C4: after any prefix of the dates the trade list holds at most one trade
\* with null exit fields, and exactly one iff the position is non-Flat.
C4_OneOpenTrade ==
    Started =>
       LET open == {k \in 1..Len(trade_history) : ExitNull(trade_history[k])}
       IN /\ Cardinality(open) <= 1
          /\ (Cardinality(open) = 1) <=> (current_position # 0)
          /\ (Cardinality(open) = 0) <=> (current_position = 0)
          /\ \A k \in 1..Len(trade_history) :
                ExitNull(trade_history[k]) \/ ExitFilled(trade_history[k])

\* a trade is open after an earlier one was completed
C4_Witness ==
    /\ pc = "loop" /\ current_position # 0
    /\ Len(trade_history) = 2
    /\ ExitFilled(trade_history[1]) /\ ExitNull(trade_history[2])

\* ---------------------------------------------------------------- C5
\* C5: trades are strictly ordered by entry_date and never overlap: each
\* trade's exit_date is strictly earlier than the next trade's entry_date
\* (no trade opens on the date the previous one exits); the reported
\* completed trades are in the same strict order.
C5_Ordered ==
    /\ Started =>
          \A k \in 1..(Len(trade_history) - 1) :
             /\ ExitFilled(trade_history[k])
             /\ trade_history[k].Entry_Date.v < trade_history[k + 1].Entry_Date.v
             /\ trade_history[k].Exit_Date.v < trade_history[k + 1].Entry_Date.v
    /\ pc = "done" =>
          \A k \in 1..(Len(trades_df) - 1) :
             /\ trades_df[k].Entry_Date.v < trades_df[k + 1].Entry_Date.v
             /\ trades_df[k].Exit_Date.v < trades_df[k + 1].Entry_Date.v

\* two completed trades are reported
C5_Witness == pc = "done" /\ Len(trades_df) >= 2

\* ---------------------------------------------------------------- C6
\* C6: every completed Trade has entry_date < exit_date; the position left
\* Flat exactly at entry_date and returned to Flat exactly at exit_date;
\* it has the trade's type at every date strictly between.
C6_TradeSpan ==
    /\ [](Started =>
            \A k \in 1..Len(trade_history) :
               ExitFilled(trade_history[k]) =>
                  LET tr == trade_history[k]
                      a == RowOf(tr.Entry_Date.v)
                      b == RowOf(tr.Exit_Date.v)
                  IN /\ tr.Entry_Date.v < tr.Exit_Date.v
                     /\ 1 <= a /\ a < b /\ b <= i
                     /\ Trade[a] = tr.Type
                     /\ Position[a] = Sign(tr.Type)
                     /\ Trade[b] = "Exit"
                     /\ \A r \in (a + 1)..(b - 1) :
                           Trade[r] = "None" /\ Position[r] = Sign(tr.Type))
    /\ [][DateStep =>
            /\ (current_position = 0 /\ current_position' # 0) <=>
                  /\ Len(trade_history') = Len(trade_history) + 1
                  /\ trade_history'[Len(trade_history')].Entry_Date
                        = Num(index[i'])
            /\ (current_position # 0 /\ current_position' = 0) <=>
                  \E k \in 1..Len(trade_history) :
                     /\ ~ExitFilled(trade_history[k])
                     /\ ExitFilled(trade_history'[k])
                     /\ trade_history'[k].Exit_Date = Num(index[i'])
            /\ (current_position # 0 /\ current_position' # 0) =>
                  current_position' = current_position
         ]_vars

\* a completed trade with a date strictly between its entry and its exit
C6_Witness ==
    /\ Started
    /\ \E k \in 1..Len(trade_history) :
          /\ ExitFilled(trade_history[k])
          /\ RowOf(trade_history[k].Exit_Date.v)
                > RowOf(trade_history[k].Entry_Date.v) + 1

\* ---------------------------------------------------------------- C7
\* C7: cumulative_pnl[d] is the sum of daily_pnl over the dates up to and
\* including d with every undefined daily_pnl counted as 0; on the final
\* date it equals the sum of all defined daily_pnl values.
C7_CumulativeIsRunningSum ==
    (pc = "done" /\ ValidThresholds) =>
       \A d \in 1..Len(index) :
          CumulativePnL[d] = Num(SumDefined(DailyPnL, d))

\* ---------------------------------------------------------------- C8
\* C8 as stated: daily_pnl[t] = position[t] * (z[t+1] - z[t]) for every
\* date but the last, and the final date's daily_pnl is 0.
C8_LookAheadFinalZero ==
    (pc = "done" /\ ValidThresholds) =>
       /\ \A t \in 1..(Len(index) - 1) :
             DailyPnL[t] =
                IF IsNum(ZScore[t]) /\ IsNum(ZScore[t + 1])
                THEN Num(Position[t] * (ZScore[t + 1].v - ZScore[t].v))
                ELSE NaN
       /\ DailyPnL[Len(index)] = Num(0)

\* C8 as amended: daily_pnl[t] = position[t] * (z[t+1] - z[t]) for every
\* date but the last (undefined when either z-score is); the final date's
\* daily_pnl is undefined and stays undefined in the Daily PnL column.
C8_LookAhead ==
    pc = "done" =>
       /\ \A t \in 1..(Len(index) - 1) :
             DailyPnL[t] =
                IF IsNum(ZScore[t]) /\ IsNum(ZScore[t + 1])
                THEN Num(Position[t] * (ZScore[t + 1].v - ZScore[t].v))
                ELSE NaN
       /\ DailyPnL[Len(index)] = NaN

\* a held position earned the next day's z-score change
C8_Witness ==
    /\ pc = "done"
    /\ \E t \in 1..(Len(index) - 1) :
          /\ Position[t] # 0
          /\ IsNum(DailyPnL[t]) /\ DailyPnL[t].v # 0

\* ---------------------------------------------------------------- C9
\* C9: the position recorded for a date is the position state after that
\* date's transition: the new position on an entry date, Flat on an exit
\* date.
C9_RecordedAfterTransition ==
    (Started /\ i >= 1 /\ ValidThresholds) => Position[i] = current_position

\* ---------------------------------------------------------------- C10
\* C10: a trade still open when the loop ends is not in the reported
\* ledger; the ledger holds exactly the trades whose exit fields were
\* filled, in their original order.
C10_LedgerIsCompletedTrades ==
    pc = "done" =>
       LET done == SelectSeq(trade_history, ExitFilled)
       IN /\ Len(trades_df) = Len(done)
          /\ \A k \in 1..Len(done) :
                /\ trades_df[k].Entry_Date = done[k].Entry_Date
                /\ trades_df[k].Type = done[k].Type
                /\ trades_df[k].Entry_Z = done[k].Entry_Z
                /\ trades_df[k].Exit_Date = done[k].Exit_Date
                /\ trades_df[k].Exit_Z = done[k].Exit_Z
                /\ trades_df[k].PnL = done[k].PnL
          /\ current_position # 0 =>
                /\ Len(trades_df) = Len(trade_history) - 1
                /\ \A k \in 1..Len(trades_df) :
                      trades_df[k].Entry_Date # entry_date

\* the loop ended with a trade open after another one was completed
C10_Witness ==
    /\ pc = "done" /\ current_position # 0
    /\ Len(trade_history) = 2 /\ Len(trades_df) = 1

\* ---------------------------------------------------------------- C11
\* the loop has ended and its outputs are built
Finished == pc \in {"done", "reported", "no_trades"}

\* C11: on a date whose z-score is undefined no entry and no exit occurs:
\* position and trade list are unchanged, the date stays in the output
\* series, and the position is Flat on each of the first lookback-1 dates.
C11_UndefinedZSkipped ==
    /\ [][(DateStep /\ ZScore[i'] = NaN) =>
            /\ UNCHANGED <<current_position, entry_z, entry_date,
                           trade_history>>
            /\ Trade'[i'] = "None"
            /\ Position'[i'] = current_position
         ]_vars
    /\ [](Started =>
            \A j \in 1..i :
               j < lookback =>
                  ZScore[j] = NaN /\ Position[j] = 0 /\ Trade[j] = "None")
    /\ [](Finished =>
            /\ Len(Position) = Len(index)
            /\ Len(DailyPnL) = Len(index)
            /\ Len(CumulativePnL) = Len(index)
            /\ \A j \in 1..Len(index) :
                  ZScore[j] = NaN => DailyPnL[j] = NaN)

\* a position was carried over a date with an undefined z-score after the
\* warm-up rows, and the run finished
C11_Witness ==
    /\ Finished
    /\ \E j \in lookback..Len(index) :
          ZScore[j] = NaN /\ Position[j] # 0 /\ Trade[j] = "None"

\* ---------------------------------------------------------------- C12
\* C12: with fewer than lookback overlapping dates the backtest fails and
\* produces no result: the loop never starts.
C12_InsufficientData ==
    Len(index) < lookback =>
       /\ pc \in {"start", "error"}
       /\ DailyPnL = <<>> /\ trades_df = <<>>

\* ---------------------------------------------------------------- C13
\* C13: with entry_threshold <= 0, exit_threshold <= 0 or lookback < 2 the
\* backtest is rejected before any computation: no position transition
\* happens and no trade is created.
C13_InvalidParameters ==
    (entry_threshold <= 0 \/ exit_threshold <= 0 \/ lookback < 2) =>
       /\ pc \in {"start", "error"}
       /\ trade_history = <<>>
       /\ current_position = 0

\* ---------------------------------------------------------------- C14
\* C14: with 0 completed trades the win rate is reported as "not
\* applicable" (here: no metric is shown at all, or it reads N/A); with
\* exactly 1 completed trade, or a PnL standard deviation of 0, the Sharpe
\* ratio is reported as "not applicable", never as 0 or a bare NaN.
C14_NotApplicable ==
    /\ (pc = "no_trades" /\ ValidThresholds) =>
          (~metrics.shown \/ metrics.table.Win_Rate = Text("N/A"))
    /\ (pc = "reported" /\ ValidThresholds) =>
          LET n == Len(trades_df)
              dev == n * SumSqPct(trades_df)
                        - SumPct(trades_df) * SumPct(trades_df)
          IN (n = 1 \/ dev = 0) =>
                metrics.table.Sharpe_Ratio = Text("N/A")

\* ---------------------------------------------------------------- C15
\* C15: a run in which no trade completes ends in the "no trades" state:
\* the ledger is empty, the page shows the warning, not one of the error
\* messages and not a metrics table.  A ratio whose z-score is always 0 or
\* undefined is such a run (for an entry threshold that is not negative).
C15_NoTradesState ==
    /\ [][(pc = "done" /\ SelectSeq(trade_history, ExitFilled) = <<>>) =>
            /\ pc' = "no_trades"
            /\ message' = [kind |-> "warning",
                           text |-> "No trades were executed"]
            /\ trades_df' = <<>>
         ]_vars
    /\ [](pc = "no_trades" =>
            /\ trades_df = <<>>
            /\ SelectSeq(trade_history, ExitFilled) = <<>>
            /\ message.kind = "warning"
            /\ ~metrics.shown)
    /\ [](pc = "error" => message.kind = "error" /\ i = 0)
    /\ []((pc \in {"reported", "no_trades"} /\ entry_threshold >= 0
             /\ \A j \in 1..Len(index) : ZScore[j] \in {NaN, Num(0)})
          => pc = "no_trades")

\* the run ended in the "no trades" state with a trade still open
C15_Witness ==
    /\ pc = "no_trades"
    /\ Len(trade_history) = 1 /\ current_position # 0

\* ---------------------------------------------------------------- C18
\* C18: whenever 0 < exit_threshold <= entry_threshold every completed
\* trade has pnl < 0, so num_trades > 0 implies win_rate = 0 and
\* total_pnl_pct < 0.
C18_EveryTradeLoses ==
    ValidThresholds =>
       /\ Started =>
             \A k \in 1..Len(trade_history) :
                ExitFilled(trade_history[k]) => trade_history[k].PnL.v < 0
       /\ pc = "reported" =>
             /\ metrics.num_trades > 0
             /\ metrics.win_rate.num = 0
             /\ metrics.long_win_rate.num = 0
             /\ metrics.short_win_rate.num = 0
             /\ metrics.total_pnl < 0

\* a Long Ratio and a Short Ratio trade were both completed and reported
C18_Witness ==
    /\ pc = "reported" /\ ValidThresholds
    /\ \E a, b \in 1..Len(trades_df) :
          trades_df[a].Type = "Long Ratio" /\ trades_df[b].Type = "Short Ratio"

\* ---------------------------------------------------------------- C16
Downloaded(res) == res.message.text # "Error downloading data"

\* C16: a second run on the same price series and the same parameters
\* starts from the same loop state as the first, and ends with the same
\* per-date series, trade ledger, metrics and message: nothing the first
\* run left behind influences it.
C16_Deterministic ==
    /\ (run = 2 /\ pc = "loop" /\ i = 0) =>
          /\ current_position = 0 /\ entry_z = None /\ entry_date = None
          /\ trade_history = <<>>
          /\ \A j \in 1..Len(index) : Position[j] = 0 /\ Trade[j] = "None"
    /\ (run = 2 /\ Terminal /\ Downloaded(Result) /\ Downloaded(first)) =>
          Result = first

\* the second run reported trades after the first run had ended with a
\* trade still open
C16_Witness ==
    /\ run = 2 /\ pc = "reported"
    /\ first.pc = "reported"
    /\ Len(trades_df) >= 1 /\ current_position # 0

\* ---------------------------------------------------------------- C17
\* C17: once the download page has opened the database and stored the
\* records of a symbol S, "Retrieve Data" for S opens the database and
\* resolves with exactly the records stored for S, one per stored row.
C17_ReaderFindsStored ==
    [][(/\ reader'.clicks = reader.clicks + 1
        /\ writer.pc = "done"
        /\ "stockData" \in idb.stores
        /\ Len(RecordsOf(idb, reader'.symbol)) > 0)
       =>
       /\ reader'.outcome = "resolved"
       /\ Len(reader'.out) = Len(RecordsOf(idb, reader'.symbol))
       /\ \A k \in 1..Len(reader'.out) :
             reader'.out[k] = RecordsOf(idb, reader'.symbol)[k].data
    ]_vars
====
